---- MODULE Spec2Model ----
(***************************************************************************)
(* Model of src/utils.py: the tolerant JSON loader safe_json_load and the  *)
(* two record extractors decode_json_points and decode_json_bboxes.        *)
(*                                                                         *)
(* A text is a sequence of one-character strings.  A Python value produced *)
(* by json.loads is a tagged record:                                       *)
(*   [t |-> "null"]                      None                              *)
(*   [t |-> "bool", b |-> BOOLEAN]       True / False                      *)
(*   [t |-> "num",  n |-> Nat]           a number                          *)
(*   [t |-> "str",  s |-> text]          a str                             *)
(*   [t |-> "list", items |-> Seq]       a list                            *)
(*   [t |-> "dict", keys |-> Seq(text), vals |-> Seq]   a dict, in         *)
(*                                       insertion order                   *)
(* Number literals are unsigned integers, string literals hold no escape   *)
(* sequence; floats hold the integer they were converted from.  No input   *)
(* holds an integer literal too long for a float (more than 308 digits),   *)
(* on which float raises OverflowError past the except clauses.            *)
(***************************************************************************)
EXTENDS Integers, Sequences, FiniteSets, TLC

\* ------------------------------------------------------------------ bounds

\* Longest list payload the inputs hold.
MaxItems == 2

\* ------------------------------------------------------- program constants

\* x, y = item["point_2d"]
PointArity == 2
\* if len(coords) != 4
BBoxArity == 4

\* --------------------------------------------------------------- characters

DQ == "\""
SQ == "'"
\* The backtick character, which a string literal of the module cannot hold.
BT == "BT"
NL == "\n"

Digits == <<"0", "1", "2", "3", "4", "5", "6", "7", "8", "9">>

IsDigit(c) == \E d \in 1..10 : Digits[d] = c

DigitVal(c) == (CHOOSE d \in 1..10 : Digits[d] = c) - 1

\* \s of the regular expressions, and the whitespace json.loads skips.
IsSpace(c) == c \in {" ", NL}

KeyPoint == <<"p", "o", "i", "n", "t", "_", "2", "d">>
KeyBBox == <<"b", "b", "o", "x", "_", "2", "d">>
KeyLabel == <<"l", "a", "b", "e", "l">>
PrefixPoint == <<"p", "o", "i", "n", "t", "_">>
PrefixBBox == <<"b", "b", "o", "x", "_">>
FenceOpen == <<BT, BT, BT, "j", "s", "o", "n">>
FenceClose == <<BT, BT, BT>>

\* s[i..] starts with lit.
Match(s, i, lit) ==
    /\ i >= 1
    /\ i + Len(lit) - 1 <= Len(s)
    /\ SubSeq(s, i, i + Len(lit) - 1) = lit

\* The least index k >= i with s[k..] starting with lit, 0 when there is none.
RECURSIVE Find(_, _, _)
Find(s, i, lit) ==
    IF i + Len(lit) - 1 > Len(s) THEN 0
    ELSE IF Match(s, i, lit) THEN i
    ELSE Find(s, i + 1, lit)

\* The least index k >= i that holds no whitespace (Len(s) + 1 at the end).
RECURSIVE SkipWs(_, _)
SkipWs(s, i) ==
    IF i <= Len(s) /\ IsSpace(s[i]) THEN SkipWs(s, i + 1) ELSE i

\* The greatest index k <= i that holds no whitespace (0 when there is none).
RECURSIVE SkipWsBack(_, _)
SkipWsBack(s, i) ==
    IF i >= 1 /\ IsSpace(s[i]) THEN SkipWsBack(s, i - 1) ELSE i

\* str.strip()
Strip(s) == SubSeq(s, SkipWs(s, 1), SkipWsBack(s, Len(s)))

\* str(n) of a non-negative int.
RECURSIVE Decimal(_)
Decimal(n) ==
    IF n < 10 THEN <<Digits[n + 1]>>
    ELSE Decimal(n \div 10) \o <<Digits[(n % 10) + 1]>>

\* int of a run of digits.
RECURSIVE NumVal(_)
NumVal(ds) ==
    IF ds = <<>> THEN 0
    ELSE 10 * NumVal(SubSeq(ds, 1, Len(ds) - 1)) + DigitVal(ds[Len(ds)])

\* ------------------------------------------------------------- Python values

JNull == [t |-> "null"]
JBool(b) == [t |-> "bool", b |-> b]
JNum(n) == [t |-> "num", n |-> n]
JStr(s) == [t |-> "str", s |-> s]
JList(xs) == [t |-> "list", items |-> xs]
JDict(ks, vs) == [t |-> "dict", keys |-> ks, vals |-> vs]

\* dict[k] = v: a key already present keeps its position and takes the value.
DictPut(d, k, v) ==
    IF \E i \in 1..Len(d.keys) : d.keys[i] = k
    THEN LET i == CHOOSE j \in 1..Len(d.keys) : d.keys[j] = k
         IN JDict(d.keys, [d.vals EXCEPT ![i] = v])
    ELSE JDict(Append(d.keys, k), Append(d.vals, v))

DictHas(d, k) == \E i \in 1..Len(d.keys) : d.keys[i] = k

DictGet(d, k) == d.vals[CHOOSE i \in 1..Len(d.keys) : d.keys[i] = k]

\* ---------------------------------------------------------------- json.loads

ParseFail(i) == [ok |-> FALSE, val |-> JNull, next |-> i]
ParseOk(v, i) == [ok |-> TRUE, val |-> v, next |-> i]

\* A string literal opening at s[i], a double quote: up to the next double
\* quote; a raw control character inside it is an error.
ParseString(s, i) ==
    LET j == Find(s, i + 1, <<DQ>>) IN
    IF j = 0 THEN ParseFail(i)
    ELSE IF \E k \in (i + 1)..(j - 1) : s[k] = NL THEN ParseFail(i)
    ELSE ParseOk(JStr(SubSeq(s, i + 1, j - 1)), j + 1)

\* The end of the run of digits starting at i.
RECURSIVE DigitsEnd(_, _)
DigitsEnd(s, i) ==
    IF i <= Len(s) /\ IsDigit(s[i]) THEN DigitsEnd(s, i + 1) ELSE i

\* A number literal at s[i], a digit: 0, or a run of digits with no leading 0.
ParseNumber(s, i) ==
    IF s[i] = "0" THEN ParseOk(JNum(0), i + 1)
    ELSE LET j == DigitsEnd(s, i)
         IN ParseOk(JNum(NumVal(SubSeq(s, i, j - 1))), j)

RECURSIVE ParseValue(_, _)
RECURSIVE ParseElems(_, _, _)
RECURSIVE ParseMembers(_, _, _)

\* After the bracket or a comma of an array, whitespace skipped: a value,
\* then the closing bracket or a comma.
ParseElems(s, i, acc) ==
    LET r == ParseValue(s, i) IN
    IF ~r.ok THEN ParseFail(i)
    ELSE LET j == SkipWs(s, r.next)
             xs == Append(acc, r.val)
         IN IF j > Len(s) THEN ParseFail(j)
            ELSE IF s[j] = "]" THEN ParseOk(JList(xs), j + 1)
            ELSE IF s[j] = "," THEN ParseElems(s, SkipWs(s, j + 1), xs)
            ELSE ParseFail(j)

\* After the brace or a comma of an object, whitespace skipped: a key, a
\* colon, a value, then the closing brace or a comma.
ParseMembers(s, i, d) ==
    IF i > Len(s) \/ s[i] # DQ THEN ParseFail(i)
    ELSE LET k == ParseString(s, i) IN
         IF ~k.ok THEN ParseFail(i)
         ELSE LET c == SkipWs(s, k.next) IN
              IF c > Len(s) \/ s[c] # ":" THEN ParseFail(c)
              ELSE LET r == ParseValue(s, SkipWs(s, c + 1)) IN
                   IF ~r.ok THEN ParseFail(c)
                   ELSE LET j == SkipWs(s, r.next)
                            e == DictPut(d, k.val.s, r.val)
                        IN IF j > Len(s) THEN ParseFail(j)
                           ELSE IF s[j] = "}" THEN ParseOk(e, j + 1)
                           ELSE IF s[j] = ","
                                THEN ParseMembers(s, SkipWs(s, j + 1), e)
                           ELSE ParseFail(j)

\* scan_once: the value starting exactly at s[i].
ParseValue(s, i) ==
    IF i > Len(s) THEN ParseFail(i)
    ELSE IF s[i] = DQ THEN ParseString(s, i)
    ELSE IF s[i] = "[" THEN
        LET j == SkipWs(s, i + 1) IN
        IF j <= Len(s) /\ s[j] = "]" THEN ParseOk(JList(<<>>), j + 1)
        ELSE ParseElems(s, j, <<>>)
    ELSE IF s[i] = "{" THEN
        LET j == SkipWs(s, i + 1) IN
        IF j <= Len(s) /\ s[j] = "}" THEN ParseOk(JDict(<<>>, <<>>), j + 1)
        ELSE ParseMembers(s, j, JDict(<<>>, <<>>))
    ELSE IF Match(s, i, <<"n", "u", "l", "l">>) THEN ParseOk(JNull, i + 4)
    ELSE IF Match(s, i, <<"t", "r", "u", "e">>) THEN ParseOk(JBool(TRUE), i + 4)
    ELSE IF Match(s, i, <<"f", "a", "l", "s", "e">>)
         THEN ParseOk(JBool(FALSE), i + 5)
    ELSE IF IsDigit(s[i]) THEN ParseNumber(s, i)
    ELSE ParseFail(i)

\* json.loads(s): one value with whitespace around it and nothing else; ok is
\* FALSE where json.loads raises.
JsonLoads(s) ==
    LET r == ParseValue(s, SkipWs(s, 1)) IN
    IF r.ok /\ SkipWs(s, r.next) = Len(s) + 1 THEN r ELSE ParseFail(1)

\* ------------------------------------------------------------ safe_json_load

\* re.search(r'```json\s*(.*?)\s*```', text, re.DOTALL) tried at start i: the
\* tag, whitespace taken greedily, then the shortest content after which
\* whitespace and a closing fence follow.  A shorter run of whitespace
\* matches nothing the whole run does not, so no backtracking is modelled.
\* Mutant of LazyEnd: the content runs to the last closing fence.
RECURSIVE LastClose(_, _)
LastClose(s, q) ==
    IF q < 1 THEN 0
    ELSE IF Match(s, q, FenceClose) THEN q
    ELSE LastClose(s, q - 1)

GreedyEnd(s, p) ==
    LET q == LastClose(s, Len(s)) IN IF q >= p THEN q ELSE 0

RECURSIVE LazyEnd(_, _)
LazyEnd(s, p) ==
    IF p > Len(s) + 1 THEN 0
    ELSE IF Match(s, SkipWs(s, p), FenceClose) THEN p
    ELSE LazyEnd(s, p + 1)

FenceAt(s, i) ==
    IF ~Match(s, i, FenceOpen) THEN [found |-> FALSE, group |-> <<>>]
    ELSE LET j == SkipWs(s, i + Len(FenceOpen))
             p == LazyEnd(s, j)
         IN IF p = 0 THEN [found |-> FALSE, group |-> <<>>]
            ELSE [found |-> TRUE, group |-> SubSeq(s, j, p - 1)]

\* The leftmost match of the fence pattern.
RECURSIVE FenceSearch(_, _)
FenceSearch(s, i) ==
    IF i > Len(s) THEN [found |-> FALSE, group |-> <<>>]
    ELSE IF FenceAt(s, i).found THEN FenceAt(s, i)
    ELSE FenceSearch(s, i + 1)

\* Lines 11-13: the text the repair steps work on.
ExtractFence(s) ==
    LET m == FenceSearch(s, 1) IN
    IF m.found THEN Strip(m.group) ELSE s

\* re.sub(r"'([^']*)'", r'"\1"', text): each single quote that has a later
\* one is paired with the next and both become double quotes; the scan goes on
\* after the pair.
RECURSIVE SubQuotes(_, _)
SubQuotes(s, i) ==
    IF i > Len(s) THEN <<>>
    ELSE IF s[i] # SQ THEN <<s[i]>> \o SubQuotes(s, i + 1)
    ELSE LET j == Find(s, i + 1, <<SQ>>) IN
         IF j = 0 THEN SubSeq(s, i, Len(s))
         ELSE <<DQ>> \o SubSeq(s, i + 1, j - 1) \o <<DQ>> \o SubQuotes(s, j + 1)

\* re.sub(r',\s*}', '}', text) and re.sub(r',\s*\]', ']', text): a comma,
\* the whitespace after it and the closer become the closer.
RECURSIVE StripComma(_, _, _)
StripComma(s, i, closer) ==
    IF i > Len(s) THEN <<>>
    ELSE LET k == SkipWs(s, i + 1) IN
         IF s[i] = "," /\ k <= Len(s) /\ s[k] = closer
         THEN <<closer>> \o StripComma(s, k + 1, closer)
         ELSE <<s[i]>> \o StripComma(s, i + 1, closer)

\* Lines 18-21: quote repair, then the two comma strippers, once each.
Repair(s) == StripComma(StripComma(SubQuotes(s, 1), 1, "}"), 1, "]")

\* Lines 16-25 on the working text: the parsed value, or None with the
\* failure printed.
ParseRepaired(w) ==
    LET r == JsonLoads(Repair(w)) IN
    IF r.ok THEN [val |-> r.val, printed |-> FALSE]
    ELSE [val |-> JNull, printed |-> TRUE]

\* ------------------------------------------------------- Python operations

\* Mutant of Falsy: only the empty list is taken for an empty payload.
FalsyOnlyEmptyList(v) == v.t = "list" /\ v.items = <<>>

\* not data (lines 30, 56)
Falsy(v) ==
    CASE v.t = "null" -> TRUE
      [] v.t = "bool" -> ~v.b
      [] v.t = "num" -> v.n = 0
      [] v.t = "str" -> v.s = <<>>
      [] v.t = "list" -> v.items = <<>>
      [] v.t = "dict" -> v.keys = <<>>

\* iter(v): the elements of a list, the characters of a str, the keys of a
\* dict; anything else is not iterable (TypeError).
Iter(v) ==
    CASE v.t = "list" -> [ok |-> TRUE, items |-> v.items]
      [] v.t = "str" ->
            [ok |-> TRUE, items |-> [i \in 1..Len(v.s) |-> JStr(<<v.s[i]>>)]]
      [] v.t = "dict" ->
            [ok |-> TRUE, items |-> [i \in 1..Len(v.keys) |-> JStr(v.keys[i])]]
      [] OTHER -> [ok |-> FALSE, items |-> <<>>]

\* key in item (lines 41, 66): a key of a dict, a substring of a str, an
\* element of a list; TypeError on anything else.
Contains(item, key) ==
    CASE item.t = "dict" -> IF DictHas(item, key) THEN "yes" ELSE "no"
      [] item.t = "str" -> IF Find(item.s, 1, key) # 0 THEN "yes" ELSE "no"
      [] item.t = "list" ->
            IF \E i \in 1..Len(item.items) :
                  item.items[i].t = "str" /\ item.items[i].s = key
            THEN "yes" ELSE "no"
      [] OTHER -> "TypeError"

\* item[key] with a str key, after key in item held: the value of a dict;
\* TypeError on a str or a list.
Subscript(item, key) ==
    IF item.t = "dict" THEN [ok |-> TRUE, val |-> DictGet(item, key)]
    ELSE [ok |-> FALSE, val |-> JNull]

\* float(v): a number as it is, True and False as 1 and 0, a str of digits
\* with whitespace around it as its number (ValueError on any other str),
\* TypeError on None, a list or a dict.
PyFloat(v) ==
    CASE v.t = "num" -> [exc |-> "none", n |-> v.n]
      [] v.t = "bool" -> [exc |-> "none", n |-> IF v.b THEN 1 ELSE 0]
      [] v.t = "str" ->
            LET d == Strip(v.s) IN
            IF d # <<>> /\ \A i \in 1..Len(d) : IsDigit(d[i])
            THEN [exc |-> "none", n |-> NumVal(d)]
            ELSE [exc |-> "ValueError", n |-> 0]
      [] OTHER -> [exc |-> "TypeError", n |-> 0]

\* len(v) (line 69): TypeError on anything without a length.
PyLen(v) ==
    CASE v.t = "list" -> [ok |-> TRUE, n |-> Len(v.items)]
      [] v.t = "str" -> [ok |-> TRUE, n |-> Len(v.s)]
      [] v.t = "dict" -> [ok |-> TRUE, n |-> Len(v.keys)]
      [] OTHER -> [ok |-> FALSE, n |-> 0]

\* sep.join(parts)
RECURSIVE Join(_, _)
Join(parts, sep) ==
    IF parts = <<>> THEN <<>>
    ELSE IF Len(parts) = 1 THEN parts[1]
    ELSE parts[1] \o sep \o Join(Tail(parts), sep)

\* repr of a str: single quotes, or double quotes when it holds a single
\* quote and no double quote.
ReprStr(s) ==
    LET hasS == \E i \in 1..Len(s) : s[i] = SQ
        hasD == \E i \in 1..Len(s) : s[i] = DQ
    IN IF hasS /\ ~hasD THEN <<DQ>> \o s \o <<DQ>>
       ELSE <<SQ>>
            \o Join([i \in 1..Len(s) |->
                        IF s[i] = SQ THEN <<"\\", SQ>> ELSE <<s[i]>>], <<>>)
            \o <<SQ>>

\* repr(v), which str(v) is for everything but a str.
RECURSIVE PyRepr(_)
PyRepr(v) ==
    CASE v.t = "null" -> <<"N", "o", "n", "e">>
      [] v.t = "bool" ->
            IF v.b THEN <<"T", "r", "u", "e">> ELSE <<"F", "a", "l", "s", "e">>
      [] v.t = "num" -> Decimal(v.n)
      [] v.t = "str" -> ReprStr(v.s)
      [] v.t = "list" ->
            <<"[">>
            \o Join([i \in 1..Len(v.items) |-> PyRepr(v.items[i])], <<",", " ">>)
            \o <<"]">>
      [] v.t = "dict" ->
            <<"{">>
            \o Join([i \in 1..Len(v.keys) |->
                        ReprStr(v.keys[i]) \o <<":", " ">> \o PyRepr(v.vals[i])],
                    <<",", " ">>)
            \o <<"}">>

\* str(label) (lines 47, 75)
PyStr(v) == IF v.t = "str" THEN v.s ELSE PyRepr(v)

\* --------------------------------------------------------- the loop bodies

\* Mutant of DefaultLabel: numbered by the labels collected so far.
DefaultLabelFromLabels(prefix, coords, labels) == prefix \o Decimal(Len(labels))

\* f"point_{len(points)}" / f"bbox_{len(bboxes)}" (lines 46, 74), evaluated
\* after the coordinates were appended.
DefaultLabel(prefix, coords, labels) == prefix \o Decimal(Len(coords))

\* item.get("label", default) (lines 46, 74); item is a dict here.
GetLabel(item, default) ==
    IF DictHas(item, KeyLabel) THEN DictGet(item, KeyLabel) ELSE JStr(default)

\* What one pass through a try block leaves: the two lists, and the exception
\* the except clause caught ("none" when the record was appended).
Skipped(coords, labels, e) ==
    [coords |-> coords, labels |-> labels, caught |-> e]

\* Mutant of Accepted: item["label"] in place of item.get, its KeyError caught
\* after the coordinates were appended.
AcceptedLabelRequired(item, prefix, coords, labels, rec) ==
    IF DictHas(item, KeyLabel)
    THEN [coords |-> Append(coords, rec),
          labels |-> Append(labels, PyStr(DictGet(item, KeyLabel))),
          caught |-> "none"]
    ELSE [coords |-> Append(coords, rec), labels |-> labels, caught |-> "KeyError"]

Accepted(item, prefix, coords, labels, rec) ==
    LET cs == Append(coords, rec) IN
    [coords |-> cs,
     labels |-> Append(labels, PyStr(GetLabel(item, DefaultLabel(prefix, cs, labels)))),
     caught |-> "none"]

\* Mutant of PointBody: the point is appended empty and filled one coordinate
\* at a time, so a failing second conversion leaves a partial point behind.
PointBodyAppendsEarly(item, points, labels) ==
    LET sub == Subscript(item, KeyPoint) IN
    IF ~sub.ok THEN Skipped(points, labels, "TypeError")
    ELSE LET it == Iter(sub.val) IN
         IF ~it.ok THEN Skipped(points, labels, "TypeError")
         ELSE IF Len(it.items) # PointArity
              THEN Skipped(points, labels, "ValueError")
         ELSE LET x == PyFloat(it.items[1])
                  y == PyFloat(it.items[2])
              IN IF x.exc # "none" THEN Skipped(Append(points, <<>>), labels, x.exc)
                 ELSE IF y.exc # "none"
                      THEN Skipped(Append(points, <<x.n>>), labels, y.exc)
                 ELSE Accepted(item, PrefixPoint, points, labels, <<x.n, y.n>>)

\* Lines 42-49, for an item in which "point_2d" was found.
PointBody(item, points, labels) ==
    LET sub == Subscript(item, KeyPoint) IN
    IF ~sub.ok THEN Skipped(points, labels, "TypeError")
    ELSE LET it == Iter(sub.val) IN
         IF ~it.ok THEN Skipped(points, labels, "TypeError")
         ELSE IF Len(it.items) # PointArity
              THEN Skipped(points, labels, "ValueError")
         ELSE LET x == PyFloat(it.items[1])
                  y == PyFloat(it.items[2])
              IN IF x.exc # "none" THEN Skipped(points, labels, x.exc)
                 ELSE IF y.exc # "none" THEN Skipped(points, labels, y.exc)
                 ELSE Accepted(item, PrefixPoint, points, labels, <<x.n, y.n>>)

\* map(float, coords) unpacked into four names (line 71): the first element
\* float refuses ends it.
FirstError(fs) ==
    IF \E i \in 1..Len(fs) : fs[i].exc # "none"
    THEN LET i == CHOOSE j \in 1..Len(fs) :
                     /\ fs[j].exc # "none"
                     /\ \A k \in 1..(j - 1) : fs[k].exc = "none"
         IN fs[i].exc
    ELSE "none"

\* Mutant of BBoxBody: at least four coordinates are asked for and the first
\* four are taken.
BBoxBodyTruncating(item, bboxes, labels) ==
    LET sub == Subscript(item, KeyBBox) IN
    IF ~sub.ok THEN Skipped(bboxes, labels, "TypeError")
    ELSE LET n == PyLen(sub.val) IN
         IF ~n.ok THEN Skipped(bboxes, labels, "TypeError")
         ELSE IF n.n < BBoxArity THEN Skipped(bboxes, labels, "continue")
         ELSE LET cs == SubSeq(Iter(sub.val).items, 1, BBoxArity)
                  fs == [i \in 1..Len(cs) |-> PyFloat(cs[i])]
              IN IF FirstError(fs) # "none"
                 THEN Skipped(bboxes, labels, FirstError(fs))
                 ELSE Accepted(item, PrefixBBox, bboxes, labels,
                               <<fs[1].n, fs[2].n, fs[3].n, fs[4].n>>)

\* Lines 67-77, for an item in which "bbox_2d" was found.
BBoxBody(item, bboxes, labels) ==
    LET sub == Subscript(item, KeyBBox) IN
    IF ~sub.ok THEN Skipped(bboxes, labels, "TypeError")
    ELSE LET n == PyLen(sub.val) IN
         IF ~n.ok THEN Skipped(bboxes, labels, "TypeError")
         ELSE IF n.n # BBoxArity THEN Skipped(bboxes, labels, "continue")
         ELSE LET cs == Iter(sub.val).items
                  fs == [i \in 1..Len(cs) |-> PyFloat(cs[i])]
              IN IF FirstError(fs) # "none"
                 THEN Skipped(bboxes, labels, FirstError(fs))
                 ELSE Accepted(item, PrefixBBox, bboxes, labels,
                               <<fs[1].n, fs[2].n, fs[3].n, fs[4].n>>)

KeyOf(f) == IF f = "points" THEN KeyPoint ELSE KeyBBox

Body(f, item, coords, labels) ==
    IF f = "points" THEN PointBody(item, coords, labels)
    ELSE BBoxBody(item, coords, labels)

\* ------------------------------------------------------------------ inputs

\* The text of a value: strings in quote q, a comma before every closer of a
\* non-empty container when tc.
RECURSIVE Serialize(_, _, _)
Serialize(v, q, tc) ==
    CASE v.t = "null" -> <<"n", "u", "l", "l">>
      [] v.t = "bool" ->
            IF v.b THEN <<"t", "r", "u", "e">> ELSE <<"f", "a", "l", "s", "e">>
      [] v.t = "num" -> Decimal(v.n)
      [] v.t = "str" -> <<q>> \o v.s \o <<q>>
      [] v.t = "list" ->
            <<"[">>
            \o Join([i \in 1..Len(v.items) |-> Serialize(v.items[i], q, tc)],
                    <<",">>)
            \o (IF tc /\ v.items # <<>> THEN <<",">> ELSE <<>>)
            \o <<"]">>
      [] v.t = "dict" ->
            <<"{">>
            \o Join([i \in 1..Len(v.keys) |->
                        <<q>> \o v.keys[i] \o <<q, ":">>
                        \o Serialize(v.vals[i], q, tc)],
                    <<",">>)
            \o (IF tc /\ v.keys # <<>> THEN <<",", " ">> ELSE <<>>)
            \o <<"}">>

Fns == {"points", "bboxes"}

Nums(ns) == [i \in 1..Len(ns) |-> JNum(ns[i])]

\* Values found under point_2d.
PointCoords ==
    { JList(Nums(<<1, 2>>)), JList(Nums(<<1>>)), JList(Nums(<<3, 2, 1>>)),
      JList(<<JStr(<<"4">>), JStr(<<" ", "5">>)>>),
      JList(<<JStr(<<"a">>), JNum(1)>>),
      JList(<<JNum(1), JNull>>),
      JList(<<JBool(TRUE), JBool(FALSE)>>),
      JNum(5), JStr(<<"6", "7">>), JList(<<>>) }

\* Values found under bbox_2d.
BBoxCoords ==
    { JList(Nums(<<0, 0, 1, 1>>)), JList(Nums(<<9, 8, 2, 3>>)),
      JList(Nums(<<1, 2, 3>>)), JList(Nums(<<1, 2, 3, 4, 5>>)),
      JList(<<JNum(1), JStr(<<"2">>), JBool(TRUE), JNum(4)>>),
      JList(<<JNum(1), JNum(2), JNull, JStr(<<"a">>)>>),
      JList(<<JNum(1), JStr(<<"a">>), JNull, JNum(4)>>),
      JNum(5), JStr(<<"6", "7", "8", "9">>) }

CoordsOf(f) == IF f = "points" THEN PointCoords ELSE BBoxCoords

GoodCoords(f) ==
    IF f = "points" THEN JList(Nums(<<1, 2>>)) ELSE JList(Nums(<<0, 0, 1, 1>>))

Cat == <<"c", "a", "t">>

\* Values found under label.
Labels == { JStr(Cat), JNum(7), JNull, JStr(<<"a", ",", "]">>) }

\* The elements of a payload: records with and without the coordinate key,
\* with and without a label, and elements that are no mapping.
ItemsOf(f) ==
    { JDict(<<KeyOf(f)>>, <<c>>) : c \in CoordsOf(f) }
    \cup { JDict(<<KeyOf(f), KeyLabel>>, <<GoodCoords(f), l>>) : l \in Labels }
    \cup { JDict(<<KeyLabel, KeyOf(f)>>, <<JStr(Cat), JList(<<>>)>>),
           JDict(<<<<"x">>>>, <<JNum(1)>>),
           JStr(KeyOf(f)), JList(<<JStr(KeyOf(f))>>), JNum(5) }

SeqsUpTo(S, n) == UNION { [1..k -> S] : k \in 0..n }

\* Payloads: lists of elements, a single mapping, scalars.
PayloadsOf(f) ==
    { JList(xs) : xs \in SeqsUpTo(ItemsOf(f), MaxItems) }
    \cup { JDict(<<KeyOf(f)>>, <<GoodCoords(f)>>), JDict(<<>>, <<>>),
           JNum(5), JNum(0), JBool(TRUE), JNull, JStr(KeyOf(f)) }

\* Payloads written in each style and wrapped in fences and prose.
StyledPayloads(f) ==
    { JList(<<JDict(<<KeyOf(f)>>, <<GoodCoords(f)>>)>>),
      JDict(<<KeyOf(f), KeyLabel>>, <<GoodCoords(f), JStr(Cat)>>),
      JList(<<JDict(<<KeyOf(f), KeyLabel>>,
                    <<GoodCoords(f), JStr(<<"a", ",", " ", "]">>)>>)>>),
      JList(<<JDict(<<KeyOf(f), KeyLabel>>,
                    <<GoodCoords(f), JStr(<<"i", "t", SQ, "s">>)>>)>>),
      JList(<<JDict(<<KeyLabel, KeyOf(f)>>,
                    <<JStr(<<"a", DQ, "b">>), GoodCoords(f)>>)>>) }

Bodies(f) ==
    { Serialize(v, q, tc) : v \in StyledPayloads(f), q \in {DQ, SQ}, tc \in BOOLEAN }
    \cup { <<>>, <<"h", "i">>, <<"[", "1", ",", ",", "]">> }

Prose == <<"s", "e", "e", " ">>

Wrapped(f) ==
    { pre \o open \o body \o close \o post :
        pre \in {<<>>, Prose},
        open \in {<<>>, FenceOpen, FenceOpen \o <<NL>>, FenceClose \o <<NL>>},
        body \in Bodies(f),
        close \in {<<>>, FenceClose, <<NL>> \o FenceClose},
        post \in {<<>>, <<" ">> \o Prose \o FenceClose} }

\* A JSON string whose content is a fenced block.
FencedString == <<DQ>> \o FenceOpen \o <<" ", "1", " ">> \o FenceClose \o <<DQ>>

TextsOf(f) ==
    { Serialize(v, DQ, FALSE) : v \in PayloadsOf(f) }
    \cup Wrapped(f) \cup {FencedString}

\* ------------------------------------------------------------ state machine

VARIABLES
    text,    \* the argument of the call
    fn,      \* the function called: "points" or "bboxes"
    pc,      \* start, fenced, loaded, loop, done (returned), raised
    work,    \* safe_json_load's text after line 13
    data,    \* what safe_json_load returned
    printed, \* whether "JSON parse failed" was printed
    items,   \* the sequence the for loop walks
    idx,     \* the position of the loop in items
    coords,  \* points / bboxes
    labels,  \* labels
    exc,     \* the exception that left the call, "none" when there is none
    result   \* the pair returned, once pc = "done"

vars == <<text, fn, pc, work, data, printed, items, idx, coords, labels, exc, result>>

Init ==
    /\ fn \in Fns
    /\ text \in TextsOf(fn)
    /\ pc = "start"
    /\ work = <<>>
    /\ data = JNull
    /\ printed = FALSE
    /\ items = <<>>
    /\ idx = 0
    /\ coords = <<>>
    /\ labels = <<>>
    /\ exc = "none"
    /\ result = <<<<>>, <<>>>>

\* Lines 11-13.
Fence ==
    /\ pc = "start"
    /\ work' = ExtractFence(text)
    /\ pc' = "fenced"
    /\ UNCHANGED <<text, fn, data, printed, items, idx, coords, labels, exc, result>>

\* Lines 16-25.
Load ==
    /\ pc = "fenced"
    /\ data' = ParseRepaired(work).val
    /\ printed' = ParseRepaired(work).printed
    /\ pc' = "loaded"
    /\ UNCHANGED <<text, fn, work, items, idx, coords, labels, exc, result>>

\* Lines 30-40 / 56-65: the early return, the wrapping of a single mapping,
\* and the start of the iteration, which raises on a value that is not
\* iterable.
Begin ==
    /\ pc = "loaded"
    /\ IF Falsy(data)
       THEN /\ pc' = "done"
            /\ result' = <<<<>>, <<>>>>
            /\ UNCHANGED <<items, idx, exc>>
       ELSE LET it == Iter(IF data.t = "dict" THEN JList(<<data>>) ELSE data) IN
            IF it.ok
            THEN /\ items' = it.items
                 /\ idx' = 1
                 /\ pc' = "loop"
                 /\ UNCHANGED <<exc, result>>
            ELSE /\ pc' = "raised"
                 /\ exc' = "TypeError"
                 /\ UNCHANGED <<items, idx, result>>
    /\ UNCHANGED <<text, fn, work, data, printed, coords, labels>>

\* Lines 40-49 / 65-77: one pass of the loop.
Step ==
    /\ pc = "loop"
    /\ idx <= Len(items)
    /\ LET item == items[idx]
           has == Contains(item, KeyOf(fn))
       IN IF has = "TypeError"
          THEN /\ pc' = "raised"
               /\ exc' = "TypeError"
               /\ UNCHANGED <<idx, coords, labels>>
          ELSE /\ idx' = idx + 1
               /\ coords' = IF has = "yes"
                            THEN Body(fn, item, coords, labels).coords
                            ELSE coords
               /\ labels' = IF has = "yes"
                            THEN Body(fn, item, coords, labels).labels
                            ELSE labels
               /\ UNCHANGED <<pc, exc>>
    /\ UNCHANGED <<text, fn, work, data, printed, items, result>>

\* Lines 51 / 79.
Return ==
    /\ pc = "loop"
    /\ idx > Len(items)
    /\ pc' = "done"
    /\ result' = <<coords, labels>>
    /\ UNCHANGED <<text, fn, work, data, printed, items, idx, coords, labels, exc>>

Next == Fence \/ Load \/ Begin \/ Step \/ Return

Spec == Init /\ [][Next]_vars

\* ------------------------------------------------------------------ claims

Empty == <<<<>>, <<>>>>

Returned == pc = "done"

Parsed == pc \notin {"start", "fenced"}

\* The loop stands before an element.
AtElement == pc = "loop" /\ idx <= Len(items)

\* C1: for every input text the call returns without raising.  The code
\* raises TypeError on a payload that is a non-zero number or true, and on a
\* list element that is a number, true, false or null.
C1_NeverRaises == pc # "raised" /\ exc = "none"

\* C2: the coordinate list and the label list have equal length after every
\* prefix of the elements and in the pair returned, and the pair returned is
\* empty when parsing failed or the payload is empty.
C2_ParallelLengths ==
    /\ Len(coords) = Len(labels)
    /\ Len(result[1]) = Len(result[2])
    /\ (Returned /\ (printed \/ Falsy(data))) => result = Empty

\* A skipped element and an accepted one were processed, one record is held.
C2_Witness ==
    /\ pc = "loop"
    /\ idx = 3
    /\ Len(coords) = 1
    /\ Len(labels) = 1

PrefixOf(f) == IF f = "points" THEN PrefixPoint ELSE PrefixBBox

\* C3: an accepted element without a label field is labelled point_<k> or
\* bbox_<k>, k being the number of records accepted so far with this one:
\* its position in the output.
C3_DefaultLabelIsOutputPosition ==
    [][(AtElement /\ Len(coords') = Len(coords) + 1)
         => /\ items[idx].t = "dict"
            /\ ~DictHas(items[idx], KeyLabel)
                 => labels' = Append(labels,
                                     PrefixOf(fn) \o Decimal(Len(coords) + 1))]_vars

\* The first element lacks the coordinate key, the second is accepted without
\* a label and is numbered 1.
C3_Witness ==
    /\ Returned
    /\ Len(items) = 2
    /\ Contains(items[1], KeyOf(fn)) = "no"
    /\ items[2].t = "dict"
    /\ ~DictHas(items[2], KeyLabel)
    /\ result[2] = <<PrefixOf(fn) \o <<"1">>>>

IsNum(v) == v.t = "num"

\* An element with exactly 2 numeric coordinates under point_2d.
NumericPair(item) ==
    /\ item.t = "dict"
    /\ DictHas(item, KeyPoint)
    /\ LET v == DictGet(item, KeyPoint) IN
       /\ v.t = "list"
       /\ Len(v.items) = PointArity
       /\ \A i \in 1..Len(v.items) : IsNum(v.items[i])

PairOf(item) ==
    LET v == DictGet(item, KeyPoint) IN <<v.items[1].n, v.items[2].n>>

\* C4: for a list of mappings decode_json_points returns one point per
\* element holding exactly 2 numeric coordinates, in input order, and nothing
\* for any other element.  The code also accepts coordinates that are
\* booleans or strings of digits, and a 2-character string of digits.
C4_OnePointPerNumericPair ==
    (/\ Returned
     /\ fn = "points"
     /\ data.t = "list"
     /\ \A i \in 1..Len(data.items) : data.items[i].t = "dict")
    => LET good == SelectSeq(data.items, NumericPair)
       IN result[1] = [i \in 1..Len(good) |-> PairOf(good[i])]

\* The element has a bbox_2d of exactly 4 values.
FourCoords(item) ==
    /\ item.t = "dict"
    /\ DictHas(item, KeyBBox)
    /\ PyLen(DictGet(item, KeyBBox)).ok
    /\ PyLen(DictGet(item, KeyBBox)).n = BBoxArity

\* C5: decode_json_bboxes leaves both lists as they are on an element whose
\* bbox_2d has not exactly 4 values, and a box it appends is the 4 values
\* converted, in the order of the source.
C5_FourCoordsInSourceOrder ==
    [][(AtElement /\ fn = "bboxes" /\ pc' = "loop")
         => IF FourCoords(items[idx])
            THEN LET cs == Iter(DictGet(items[idx], KeyBBox)).items IN
                 IF \E i \in 1..BBoxArity : PyFloat(cs[i]).exc # "none"
                 THEN coords' = coords /\ labels' = labels
                 ELSE /\ coords' = Append(coords,
                                          [i \in 1..BBoxArity |-> PyFloat(cs[i]).n])
                      /\ Len(labels') = Len(labels) + 1
            ELSE coords' = coords /\ labels' = labels]_vars

\* A record of 3 values was skipped, one of 5 too, and a box with
\* x_min > x_max was returned as written.
C5_Witness ==
    /\ Returned
    /\ fn = "bboxes"
    /\ Len(items) = 2
    /\ items[1].t = "dict" /\ DictHas(items[1], KeyBBox)
    /\ PyLen(DictGet(items[1], KeyBBox)).ok
    /\ PyLen(DictGet(items[1], KeyBBox)).n = 5
    /\ result[1] = <<<<9, 8, 2, 3>>>>

\* The first block of s that opens with the fence open and closes with a
\* later triple backtick: found, and its content.
FirstBlock(s, open) ==
    LET n == Len(open)
        Opens == { i \in 1..Len(s) :
                     /\ Match(s, i, open)
                     /\ \E k \in (i + n)..Len(s) : Match(s, k, FenceClose) }
    IN IF Opens = {} THEN [found |-> FALSE, content |-> <<>>]
       ELSE LET i == CHOOSE a \in Opens : \A b \in Opens : a <= b
                Closes == { k \in (i + n)..Len(s) : Match(s, k, FenceClose) }
                k == CHOOSE a \in Closes : \A b \in Closes : a <= b
            IN [found |-> TRUE, content |-> SubSeq(s, i + n, k - 1)]

\* The working text when the json tag is optional: the content of the first
\* block opened by a triple backtick, the tag dropped when it is there.
OptionalTagWork(s) ==
    LET b == FirstBlock(s, FenceClose) IN
    IF ~b.found THEN s
    ELSE IF Match(b.content, 1, <<"j", "s", "o", "n">>)
         THEN Strip(SubSeq(b.content, 5, Len(b.content)))
         ELSE Strip(b.content)

\* C6, as claimed: the working text is the trimmed content of the first
\* block delimited by triple backticks, the json tag optional, and the input
\* text when there is no such block.
C6_OptionalTag == pc # "start" => work = OptionalTagWork(text)

\* C6, amended: the working text is the trimmed content of the first block
\* that opens with three backticks followed at once by json and closes with
\* the next three backticks; without such a block, a block fenced by bare
\* backticks included, it is the input text unchanged.
C6_TaggedBlockOnly ==
    pc # "start"
      => work = IF FirstBlock(text, FenceOpen).found
                THEN Strip(FirstBlock(text, FenceOpen).content)
                ELSE text

\* Prose, a tagged block holding JSON, and prose with another fence after it.
C6_Witness ==
    /\ pc = "fenced"
    /\ Match(text, 1, Prose)
    /\ Match(text, Len(text) - 2, FenceClose)
    /\ work # <<>>
    /\ Len(work) < Len(text) - Len(Prose) - 2 * Len(FenceClose) - Len(FenceOpen)
    /\ JsonLoads(work).ok

\* C7: when the repaired text is not valid JSON, safe_json_load prints the
\* failure and returns None, and the call returns the empty pair without
\* entering the loop and without raising.
C7_ParseFailureIsEmpty ==
    (Parsed /\ ~JsonLoads(Repair(work)).ok)
      => /\ data = JNull
         /\ printed
         /\ exc = "none"
         /\ pc \in {"loaded", "done"}
         /\ result = Empty

\* The empty input string was given and the empty pair returned.
C7_Witness ==
    /\ Returned
    /\ text = <<>>
    /\ printed
    /\ result = Empty

HasChar(s, c) == \E i \in 1..Len(s) : s[i] = c

\* C8: a text that is valid JSON and holds no single quote loads to the value
\* json.loads gives for it.  The code strips a comma before a closer inside a
\* string value, and takes a fenced block out of a string value.
C8_ValidJsonUnchanged ==
    (Parsed /\ JsonLoads(text).ok /\ ~HasChar(text, SQ))
      => /\ ~printed
         /\ data = JsonLoads(text).val

\* No str of the value holds the character c.
RECURSIVE NoChar(_, _)
NoChar(v, c) ==
    CASE v.t = "str" -> ~HasChar(v.s, c)
      [] v.t = "list" -> \A i \in 1..Len(v.items) : NoChar(v.items[i], c)
      [] v.t = "dict" ->
            \A i \in 1..Len(v.keys) :
                ~HasChar(v.keys[i], c) /\ NoChar(v.vals[i], c)
      [] OTHER -> TRUE

\* C9: a text that writes a value as JSON, but with its strings in single
\* quotes (none holding a single quote) or with a comma before each closer,
\* or both, loads to that value.  The code strips a comma before a closer
\* inside a string value (C8), and fails on a single-quoted string that
\* holds a double quote.
C9_LooseJsonRepaired ==
    Parsed
      => \A v \in StyledPayloads(fn), q \in {DQ, SQ}, tc \in BOOLEAN :
            (text = Serialize(v, q, tc) /\ NoChar(v, SQ) /\ NoChar(v, q))
              => (~printed /\ data = v)

\* The element is one the loop rejects: the key is missing, or the value
\* under it has the wrong arity or a coordinate float refuses.
Rejected(f, item) ==
    \/ Contains(item, KeyOf(f)) = "no"
    \/ /\ Contains(item, KeyOf(f)) = "yes"
       /\ \/ item.t # "dict"
          \/ LET v == DictGet(item, KeyOf(f)) IN
             \/ ~Iter(v).ok
             \/ Len(Iter(v).items) # (IF f = "points" THEN PointArity ELSE BBoxArity)
             \/ \E i \in 1..Len(Iter(v).items) :
                   PyFloat(Iter(v).items[i]).exc # "none"

\* C10: a pass of the loop over a rejected element leaves both lists as they
\* were and moves the loop on to the next element.
C10_SkipLeavesListsUntouched ==
    [][(AtElement /\ Rejected(fn, items[idx]))
         => /\ coords' = coords
            /\ labels' = labels
            /\ pc' = "loop"
            /\ idx' = idx + 1]_vars

\* The first element held the key and was rejected, the second was extracted.
C10_Witness ==
    /\ Returned
    /\ Len(items) = 2
    /\ Contains(items[1], KeyOf(fn)) = "yes"
    /\ Rejected(fn, items[1])
    /\ ~Rejected(fn, items[2])
    /\ Len(result[1]) = 1
    /\ Len(result[2]) = 1

====
